---- MODULE Spec2Model ----
(***************************************************************************)
(* A state-machine model of the IKEA product scraper, src/src/main.js,     *)
(* lines 736-1520: the SIK API phase (fetchViaSik), the detail crawler     *)
(* (runDetailCrawler), the HTML listing crawler (runHtmlCrawler) and the   *)
(* run state they share: saved, seenProducts, detailRequests, the dataset  *)
(* and the request queue.                                                  *)
(*                                                                         *)
(* Values.  Scalar field values are strings; the JavaScript null and       *)
(* undefined are the string "null", numbers are their decimal strings.     *)
(* A URL is a record [host, kind, seg, page, offset]: kind "p" is a        *)
(* product page /p/<slug>/ whose slug is the hyphen-separated token        *)
(* sequence seg; kind "list" is a listing page whose path segments are     *)
(* seg; page = 0 and offset = -1 say that the query parameter is absent.   *)
(* A record of the dataset is a function from field names to values.       *)
(***************************************************************************)
EXTENDS Integers, Sequences, FiniteSets, TLC

\* ------------------------------------------------------------ bounds
\* Largest product ceiling (maxProducts) a run of the model is configured with.
MaxProductsCfg == 2
\* Largest page ceiling (maxPages) a run of the model is configured with.
MaxPagesCfg == 2
\* Largest number of request handlers the model lets run at the same time.
MaxInFlight == 2

\* ------------------------------------------------------------ program constants
DEFAULT_PAGE_SIZE == 48
MAX_API_WINDOW == 480
\* maxConcurrency of the detail crawler and of the HTML crawler.
DetailConcurrency == 3
HtmlConcurrency == 4
\* The synthetic offset step of findNextPage.
OffsetStep == 24

\* ------------------------------------------------------------ values
Null == "null"
\* JavaScript truthiness of a scalar: null, 0 and the empty string are falsy.
Truthy(v) == v \notin {Null, "0", ""}
\* a ?? b
Coalesce(a, b) == IF a # Null THEN a ELSE b
\* a || b
OrElse(a, b) == IF Truthy(a) THEN a ELSE b

Min(a, b) == IF a <= b THEN a ELSE b
SetMax(S) == CHOOSE x \in S : \A y \in S : y <= x

\* Tokens of a slug that are runs of digits.
Digits == {"1", "2", "3"}

IkeaHost == "www.ikea.com"
NoUrl == [host |-> "", kind |-> "none", seg |-> <<>>, page |-> 0, offset |-> -1]
PUrl(host, seg) == [host |-> host, kind |-> "p", seg |-> seg, page |-> 0, offset |-> -1]
LUrl(host, seg, page, offset) ==
    [host |-> host, kind |-> "list", seg |-> seg, page |-> page, offset |-> offset]

\* new URL(href, base).href: a relative href (host "") takes the base's host;
\* an href that does not parse (host "??") gives null.
toAbs(href, base) ==
    IF href.host = "??" THEN NoUrl
    ELSE IF href.host = "" THEN [href EXCEPT !.host = base.host]
    ELSE href
BaseUrl == LUrl(IkeaHost, <<"gb", "en">>, 0, -1)

\* url.match(/\/p\/[^/]+-(\d+)\/?/)?.[1]: the digits that follow the last
\* hyphen of the slug that is followed by a digit, with at least one
\* character before that hyphen; null when there is none.
ProductIdOfUrl(url) ==
    IF url.kind # "p" THEN Null
    ELSE LET idx == {i \in 2..Len(url.seg) : url.seg[i] \in Digits}
         IN IF idx = {} THEN Null ELSE url.seg[SetMax(idx)]

\* { ...a, ...b }: the keys of both, b's value where b has the key.
Spread(a, b) ==
    [k \in DOMAIN a \cup DOMAIN b |-> IF k \in DOMAIN b THEN b[k] ELSE a[k]]
Has(r, k) == k \in DOMAIN r
Get(r, k) == IF k \in DOMAIN r THEN r[k] ELSE Null

\* Mutant of SeenHas: the test never finds the id.
SeenHasNever(seen, id) == FALSE

\* seenProducts.has(id)
SeenHas(seen, id) == id \in seen

\* Mutant of SeenAdd: the set keeps the last id only.
SeenAddForgetful(seen, id) == {id}

\* seenProducts.add(id)
SeenAdd(seen, id) == seen \cup {id}

\* ------------------------------------------------------------ run configuration
\* SPECIAL_CATEGORY_MAP[key], null when the key is not in the map.
SPECIAL_CATEGORY_MAP(key) ==
    CASE key = "new-products" -> "new_product"
      [] key = "family-offers" -> "family_price"
      [] key = "lower-price" -> "new_lower_price"
      [] key = "last-chance" -> "last_chance"
      [] key = "lowest-price" -> "breath_taking"
      [] OTHER -> Null

CatUrl == LUrl(IkeaHost, <<"gb", "en", "cat", "sofas">>, 0, -1)
SearchUrl == LUrl(IkeaHost, <<"gb", "en", "search">>, 2, -1)
NewUrl(category) == LUrl(IkeaHost, <<"gb", "en", "new", category>>, 0, -1)

\* The inputs of a run: startUrls, category, maxProducts, maxPages, collectDetails.
StartChoices ==
    { [startUrls |-> <<>>, category |-> "new-products"],
      [startUrls |-> <<>>, category |-> ""],
      [startUrls |-> <<CatUrl>>, category |-> "new-products"],
      [startUrls |-> <<SearchUrl, CatUrl>>, category |-> "new-products"] }

Configs ==
    { [startUrls |-> s.startUrls, category |-> s.category,
       MAX_PRODUCTS |-> mp, MAX_PAGES |-> pg, collectDetails |-> cd] :
        s \in StartChoices, mp \in 1..MaxProductsCfg, pg \in 1..MaxPagesCfg,
        cd \in BOOLEAN }

\* const initial = startUrls.length ? startUrls.map(...) : [default listing URL]
InitialUrls(c) ==
    IF Len(c.startUrls) > 0 THEN c.startUrls ELSE <<NewUrl(c.category)>>

\* resolveSikSearch(): the search configuration, or null (FALSE) when none.
resolveSikSearch(c) ==
    IF Len(c.startUrls) = 0
    THEN SPECIAL_CATEGORY_MAP(c.category) # Null \/ Truthy(c.category)
    ELSE LET parts == c.startUrls[1].seg
             lastSegment == parts[Len(parts)]
             hasPart(x) == \E i \in 1..Len(parts) : parts[i] = x
         IN \/ /\ hasPart("new")
               /\ OrElse(SPECIAL_CATEGORY_MAP(lastSegment),
                         SPECIAL_CATEGORY_MAP(c.category)) # Null
            \/ hasPart("cat") /\ Truthy(lastSegment)

\* ------------------------------------------------------------ site fixtures
\* Product pages of the site.  Billy1 and Kallax1 are two pages whose slugs
\* end in the same digits; BillyS has no digits after a hyphen.
Billy1 == PUrl("", <<"billy", "1">>)
Kallax1 == PUrl("", <<"kallax", "1">>)
Malm2 == PUrl("", <<"malm", "2">>)
BillyS == PUrl("", <<"billy", "s1">>)

\* Products as the SIK API returns them (item.product).
SikA == [itemNo |-> "1", name |-> "BILLY", typeName |-> "Bookcase",
         numeral |-> "10", currencyCode |-> "GBP", pipUrl |-> Billy1,
         ratingValue |-> "4", ratingCount |-> "7", availability |-> <<"In stock">>]
SikB == [itemNo |-> "2", name |-> "KALLAX", typeName |-> Null,
         numeral |-> Null, currencyCode |-> Null, pipUrl |-> Kallax1,
         ratingValue |-> Null, ratingCount |-> Null, availability |-> <<>>]
SikC == [itemNo |-> "3", name |-> "MALM", typeName |-> Null,
         numeral |-> "30", currencyCode |-> "GBP", pipUrl |-> NoUrl,
         ratingValue |-> Null, ratingCount |-> Null, availability |-> <<>>]
SikNoId == [itemNo |-> "", name |-> "LACK", typeName |-> Null,
         numeral |-> "5", currencyCode |-> "GBP", pipUrl |-> Malm2,
         ratingValue |-> Null, ratingCount |-> Null, availability |-> <<>>]

\* The batches (primary.items, filtered) a SIK response can carry.
SikBatches == { <<SikA, SikA, SikB>>, <<SikC, SikA>>, <<SikNoId, SikC>> }
\* primary.metadata.itemsPerType.PRODUCT; "null" when the response has none.
SikTotals == {1}

\* ------------------------------------------------------------ the SIK API path
Infinity == 1000000000
\* String(...).trim() on the id values of the model: a blank id trims to "".
Trim(s) == IF s = " " THEN "" ELSE s

\* mapSikProduct, the id: String(itemNo || itemNoGlobal || id || productNumber || '').trim()
SikProductId(product) ==
    Trim(OrElse(Get(product, "itemNo"),
         OrElse(Get(product, "itemNoGlobal"),
         OrElse(Get(product, "id"),
         OrElse(Get(product, "productNumber"), "")))))

\* mapSikProduct, the record it returns once the id is claimed.
mapSikProduct(product, category) ==
    LET name == IF Truthy(product.name) /\ Truthy(product.typeName)
                THEN product.name \o " " \o product.typeName
                ELSE IF Truthy(product.name) THEN product.name
                ELSE IF Truthy(product.typeName) THEN product.typeName
                ELSE product.name
    IN [productId |-> SikProductId(product),
        name |-> OrElse(name, OrElse(Get(product, "productName"), Null)),
        price |-> Coalesce(product.numeral, Coalesce(Get(product, "priceNumeral"), Null)),
        currency |-> OrElse(product.currencyCode, Null),
        image |-> OrElse(Get(product, "mainImageUrl"), Null),
        url |-> IF product.pipUrl # NoUrl THEN toAbs(product.pipUrl, BaseUrl) ELSE NoUrl,
        rating |-> Coalesce(product.ratingValue, Coalesce(Get(product, "averageRating"), Null)),
        reviewCount |-> Coalesce(product.ratingCount, Coalesce(Get(product, "numberOfReviews"), Null)),
        availability |-> IF Len(product.availability) > 0
                         THEN product.availability[1] ELSE "Check availability",
        category |-> OrElse(category, Null)]

\* Mutant of NeedsDetail: a product is never sent to its detail page.
NeedsDetailNever(c, product) == FALSE

\* if (collectDetails && mapped.url), if (collectDetails && product.url)
NeedsDetail(c, product) == c.collectDetails /\ product.url # NoUrl

\* fetchViaSik, the loop over the items of one batch.  st carries saved,
\* seenProducts, detailRequests, the dataset and count.
RECURSIVE SikItems(_, _, _, _)
SikItems(c, items, i, st) ==
    IF i > Len(items) \/ st.saved >= c.MAX_PRODUCTS THEN st
    ELSE LET id == SikProductId(items[i])
         IN IF ~Truthy(id) \/ SeenHas(st.seen, id) THEN SikItems(c, items, i + 1, st)
            ELSE LET mapped == mapSikProduct(items[i], c.category)
                     st1 == [st EXCEPT !.seen = SeenAdd(@, id), !.count = @ + 1]
                 IN IF NeedsDetail(c, mapped)
                    THEN SikItems(c, items, i + 1,
                           [st1 EXCEPT !.dreq = Append(@, [url |-> mapped.url, baseData |-> mapped])])
                    ELSE SikItems(c, items, i + 1,
                           [st1 EXCEPT !.data = Append(@, mapped), !.saved = @ + 1])

\* Math.min(DEFAULT_PAGE_SIZE, MAX_PRODUCTS - saved, MAX_API_WINDOW)
WindowSize(c, sv) == Min(DEFAULT_PAGE_SIZE, Min(c.MAX_PRODUCTS - sv, MAX_API_WINDOW))

\* ------------------------------------------------------------ the JSON-LD path
\* Items of a JSON-LD block as tryEmbeddedJson returns them.  offerPrice,
\* offerCurrency and offerAvailability are offers.price, offers.priceCurrency
\* and offers.availability; sku is item.sku; itemName is item.name.  JsonSku
\* is an item known by its sku only: it has no name, and its product URL
\* carries no id.
JsonA == [id |-> "1", sku |-> Null, name |-> "BILLY", itemName |-> Null,
          offerPrice |-> "10", price |-> Null, offerCurrency |-> "GBP",
          currency |-> Null, image |-> "billy.jpg", url |-> Billy1,
          ratingValue |-> "4", reviewCount |-> "7", offerAvailability |-> "InStock"]
JsonNoId == [id |-> Null, sku |-> Null, name |-> "LACK", itemName |-> Null,
          offerPrice |-> Null, price |-> "5", offerCurrency |-> Null,
          currency |-> Null, image |-> Null, url |-> Malm2,
          ratingValue |-> Null, reviewCount |-> Null, offerAvailability |-> Null]
JsonSku == [id |-> Null, sku |-> "2", name |-> Null, itemName |-> Null,
          offerPrice |-> Null, price |-> Null, offerCurrency |-> Null,
          currency |-> Null, image |-> Null, url |-> BillyS,
          ratingValue |-> Null, reviewCount |-> Null, offerAvailability |-> Null]

\* What tryEmbeddedJson returns as products; <<>> stands for null and for an
\* empty itemListElement, which the LIST handler treats alike.
JsonResults == { <<>>, <<JsonA, JsonSku>>, <<JsonNoId>>, <<JsonA>> }

\* processJsonLdProduct, the id: id || productId || item?.sku || item?.productID
JsonLdId(product) ==
    OrElse(Get(product, "id"),
    OrElse(Get(product, "productId"),
    OrElse(Get(product, "sku"), Get(product, "productID"))))

\* parseFloat(String(price).replace(/,/g, '')) on the price strings of the model.
ParsePrice(s) == IF s = "1,000" THEN "1000" ELSE s

\* processJsonLdProduct, the record it returns once the id is claimed.
processJsonLdProduct(product, category) ==
    LET price == OrElse(product.offerPrice, product.price)
        currency == OrElse(product.offerCurrency, product.currency)
    IN [productId |-> JsonLdId(product),
        name |-> OrElse(product.name, OrElse(product.itemName, Null)),
        price |-> IF Truthy(price) THEN ParsePrice(price) ELSE Null,
        currency |-> OrElse(currency, Null),
        image |-> product.image,
        url |-> IF product.url # NoUrl THEN toAbs(product.url, BaseUrl) ELSE NoUrl,
        rating |-> OrElse(product.ratingValue, Null),
        reviewCount |-> OrElse(product.reviewCount, Null),
        availability |-> OrElse(product.offerAvailability, "Check availability"),
        category |-> OrElse(category, Null)]

\* The LIST handler's loop over jsonProducts: res carries productsFound and
\* seenProducts.  saved does not change during the loop.
RECURSIVE JsonLoop(_, _, _, _, _)
JsonLoop(c, sv, items, i, res) ==
    IF i > Len(items) \/ sv >= c.MAX_PRODUCTS THEN res
    ELSE LET id == JsonLdId(items[i])
         IN IF ~Truthy(id) \/ SeenHas(res.seen, id) THEN JsonLoop(c, sv, items, i + 1, res)
            ELSE JsonLoop(c, sv, items, i + 1,
                   [found |-> Append(res.found, processJsonLdProduct(items[i], c.category)),
                    seen |-> SeenAdd(res.seen, id)])

\* ------------------------------------------------------------ the DOM path
\* A product card: links holds, per link selector, the href of its first
\* match; firstNumber is the first number of the card's text, rating and
\* reviews what the rating and review patterns capture there.
CardBilly == [links |-> <<Billy1>>, name |-> "BILLY", ariaLabel |-> Null,
              firstNumber |-> "10", rating |-> "4", reviews |-> "7", image |-> "billy.jpg"]
CardMalm == [links |-> <<NoUrl, Malm2>>, name |-> Null, ariaLabel |-> "MALM",
             firstNumber |-> "30", rating |-> Null, reviews |-> Null, image |-> Null]
CardNoName == [links |-> <<Kallax1>>, name |-> Null, ariaLabel |-> Null,
               firstNumber |-> "20", rating |-> Null, reviews |-> Null, image |-> Null]
CardNoId == [links |-> <<BillyS>>, name |-> "BILLY", ariaLabel |-> Null,
             firstNumber |-> "10", rating |-> Null, reviews |-> Null, image |-> Null]

\* The elements the first matching card selector finds on a listing page.
DomPages == { <<>>, <<CardBilly, CardMalm>>, <<CardNoId, CardMalm>>, <<CardNoName>> }

\* The first link of the card whose href contains '/p/', made absolute.
RECURSIVE CardUrl(_, _)
CardUrl(links, i) ==
    IF i > Len(links) THEN NoUrl
    ELSE IF links[i].kind = "p" THEN toAbs(links[i], BaseUrl)
    ELSE CardUrl(links, i + 1)

\* extractProductsFromHtml, the record built from one card.
DomProduct(card) ==
    LET productUrl == CardUrl(card.links, 1)
    IN [productId |-> ProductIdOfUrl(productUrl),
        name |-> IF Truthy(card.name) THEN card.name ELSE card.ariaLabel,
        price |-> card.firstNumber,
        currency |-> Null,
        image |-> card.image,
        url |-> productUrl,
        rating |-> card.rating,
        reviewCount |-> card.reviews,
        availability |-> "Available"]

\* Mutant of DomAccepted: every card with an id gives a record.
DomAcceptedAlways(product) == TRUE

\* if (product.name && product.price)
DomAccepted(product) == Truthy(product.name) /\ Truthy(product.price)

\* extractProductsFromHtml: res carries products and seenProducts.  The id is
\* claimed before the name and the price are looked at.
RECURSIVE extractProductsFromHtml(_, _, _)
extractProductsFromHtml(cards, i, res) ==
    IF i > Len(cards) THEN res
    ELSE LET product == DomProduct(cards[i])
         IN IF product.url = NoUrl \/ ~Truthy(product.productId)
               \/ SeenHas(res.seen, product.productId)
            THEN extractProductsFromHtml(cards, i + 1, res)
            ELSE LET seen1 == SeenAdd(res.seen, product.productId)
                 IN IF DomAccepted(product)
                    THEN extractProductsFromHtml(cards, i + 1,
                           [found |-> Append(res.found, product), seen |-> seen1])
                    ELSE extractProductsFromHtml(cards, i + 1,
                           [found |-> res.found, seen |-> seen1])

\* ------------------------------------------------------------ the detail page
\* A product page as extractProductDetails reads it: what each selector or
\* text pattern finds, "null" when it finds nothing; throws when reading the
\* page raises.
PageFull == [throws |-> FALSE, h1 |-> "BILLY Bookcase, white", price |-> "20",
             description |-> "A simple unit can be enough storage.",
             measurements |-> "Width: 80 cm", images |-> "products/billy.jpg",
             rating |-> "5", reviews |-> "3", features |-> "Adjustable shelves",
             type |-> "Bookcase", availability |-> "In stock"]
PageBare == [throws |-> FALSE, h1 |-> Null, price |-> Null, description |-> Null,
             measurements |-> Null, images |-> Null, rating |-> Null,
             reviews |-> Null, features |-> Null, type |-> Null,
             availability |-> Null]
PageThrows == [PageBare EXCEPT !.throws = TRUE]
DetailPages == {PageFull, PageBare, PageThrows}

Opt(k, v) == IF v # Null THEN (k :> v) ELSE <<>>

\* Mutant of DetailAvailability: no sentinel when the page states none.
DetailAvailabilityRaw(page) == page.availability

\* data.availability = availMatch ? availMatch[1].trim() : 'Check availability'
DetailAvailability(page) ==
    IF page.availability # Null THEN page.availability ELSE "Check availability"

\* extractProductDetails(url, $): the data object; name, description,
\* measurements and type are keys of it only when found.  No data at all
\* (the empty object spreads like null) when reading the page throws.
extractProductDetails(url, page) ==
    IF page.throws THEN <<>>
    ELSE Spread(Spread(Spread(Spread(
           [productId |-> OrElse(ProductIdOfUrl(url), Null),
            price |-> page.price,
            images |-> page.images,
            rating |-> page.rating,
            reviewCount |-> page.reviews,
            features |-> page.features,
            availability |-> DetailAvailability(page)],
           Opt("name", page.h1)), Opt("description", page.description)),
           Opt("measurements", page.measurements)), Opt("type", page.type))

\* The finalProduct of a DETAIL handler.  categoryValue is
\* category || baseData.category || null in the detail crawler and
\* category || null in the HTML crawler.
FinalProduct(baseData, details, url, categoryValue) ==
    Spread(Spread(baseData, details),
           [url |-> url, category |-> categoryValue, scrapedAt |-> "now"])

DetailCrawlerCategory(c, baseData) ==
    OrElse(c.category, OrElse(Get(baseData, "category"), Null))
HtmlCrawlerCategory(c) == OrElse(c.category, Null)

\* ------------------------------------------------------------ pagination
\* The first match of each next-page selector that matches: its href
\* (NoUrl when it has none) and whether it is disabled.
NextElements(url, pageNo) ==
    { <<>>,
      <<[href |-> [url EXCEPT !.host = ""], disabled |-> FALSE]>>,
      <<[href |-> NoUrl, disabled |-> FALSE],
        [href |-> LUrl("", url.seg, 0, 0), disabled |-> FALSE]>>,
      <<[href |-> LUrl(IkeaHost, url.seg, pageNo + 1, -1), disabled |-> TRUE]>> }

RECURSIVE ExplicitNext(_, _, _)
ExplicitNext(elems, i, currentUrl) ==
    IF i > Len(elems) THEN NoUrl
    ELSE IF elems[i].href # NoUrl /\ ~elems[i].disabled
    THEN toAbs(elems[i].href, currentUrl)
    ELSE ExplicitNext(elems, i + 1, currentUrl)

HasExplicitNext(elems) ==
    \E i \in 1..Len(elems) : elems[i].href # NoUrl /\ ~elems[i].disabled

\* Mutant of findNextPage: the synthetic page URL is tried before the
\* explicit links.
findNextPageSyntheticFirst(elems, currentUrl, pageNo) ==
    IF currentUrl.page # 0 \/ pageNo = 1
    THEN [currentUrl EXCEPT !.page = pageNo + 1]
    ELSE IF HasExplicitNext(elems) THEN ExplicitNext(elems, 1, currentUrl)
    ELSE IF currentUrl.offset # -1
    THEN [currentUrl EXCEPT !.offset = @ + OffsetStep]
    ELSE NoUrl

\* findNextPage($, currentUrl, pageNo); NoUrl stands for null.
findNextPage(elems, currentUrl, pageNo) ==
    IF HasExplicitNext(elems) THEN ExplicitNext(elems, 1, currentUrl)
    ELSE IF currentUrl.page # 0 \/ pageNo = 1
    THEN [currentUrl EXCEPT !.page = pageNo + 1]
    ELSE IF currentUrl.offset # -1
    THEN [currentUrl EXCEPT !.offset = @ + OffsetStep]
    ELSE NoUrl

\* ------------------------------------------------------------ state
VARIABLES
    cfg,            \* the run's inputs
    pc,             \* where main() is: "sik", "detail", "html", "done", "failed"
    saved,          \* let saved
    seenProducts,   \* const seenProducts
    detailRequests, \* const detailRequests
    dataset,        \* the records Dataset.pushData has stored, in order
    sik,            \* fetchViaSik's locals: offset, page, total, count, done
    apiCount,       \* let apiCount
    queue,          \* the running crawler's pending requests
    queueKeys,      \* the URLs ever added to the request queue
    handlers,       \* the request handlers in flight
    listPages,      \* listing pages processed: SIK batches with products and LIST
                    \* requests whose handler started
    failedDetails,  \* the baseData of the DETAIL requests that failed for good
    nextLog,        \* the URLs findNextPage returned: from which page, and whether
                    \* enqueueLinks was called with it
    call,           \* the function call under evaluation, taken on its own
    ret             \* its return value

vars == <<cfg, pc, saved, seenProducts, detailRequests, dataset, sik, apiCount,
          queue, queueKeys, handlers, listPages, failedDetails, nextLog,
          call, ret>>
hist == <<listPages, failedDetails, nextLog>>

\* No function is evaluated on its own during a run.
NoCall == [fn |-> "none"]
Pending == [kind |-> "pending"]

NoBase == [none |-> Null]
ListRequest(url, pageNo) ==
    [url |-> url, label |-> "LIST", pageNo |-> pageNo, baseData |-> NoBase]
DetailRequest(url, baseData) ==
    [url |-> url, label |-> "DETAIL", pageNo |-> 1, baseData |-> baseData]

\* Adding requests to the crawler's request queue: a request whose URL
\* (its uniqueKey) was added before is dropped.
RECURSIVE AddRequests(_, _, _)
AddRequests(q, keys, reqs) ==
    IF reqs = <<>> THEN [queue |-> q, keys |-> keys]
    ELSE IF Head(reqs).url \in keys THEN AddRequests(q, keys, Tail(reqs))
    ELSE AddRequests(Append(q, Head(reqs)), keys \cup {Head(reqs).url}, Tail(reqs))

RECURSIVE MapSeq(_, _, _)
MapSeq(Op(_), sq, i) ==
    IF i > Len(sq) THEN <<>> ELSE <<Op(sq[i])>> \o MapSeq(Op, sq, i + 1)

DetailOf(r) == DetailRequest(r.url, r.baseData)
StartOf(u) == ListRequest(u, 1)

\* Mutant of RunsDetail: the detail crawler runs in every run.
RunsDetailAlways(c, sv, dreq) == TRUE

\* main(), after fetchViaSik: which phase runs next, with its request queue.
\* runDetailCrawler returns at once unless collectDetails, detailRequests is
\* non-empty and saved < MAX_PRODUCTS.
RunsDetail(c, sv, dreq) ==
    c.collectDetails /\ Len(dreq) > 0 /\ sv < c.MAX_PRODUCTS
\* shouldRunHtml && saved < MAX_PRODUCTS, and runHtmlCrawler's own guard.
RunsHtml(c, sv, sikConfig, count) ==
    /\ Len(c.startUrls) > 0 \/ ~sikConfig \/ count = 0
    /\ sv < c.MAX_PRODUCTS
    /\ Len(InitialUrls(c)) > 0

AfterDetail(c, sv, count, keys) ==
    IF RunsHtml(c, sv, resolveSikSearch(c), count)
    THEN LET a == AddRequests(<<>>, keys, MapSeq(StartOf, InitialUrls(c), 1))
         IN [pc |-> "html", queue |-> a.queue, keys |-> a.keys]
    ELSE [pc |-> "done", queue |-> <<>>, keys |-> keys]

AfterSik(c, sv, dreq, count, keys) ==
    IF RunsDetail(c, sv, dreq)
    THEN LET a == AddRequests(<<>>, keys, MapSeq(DetailOf, dreq, 1))
         IN [pc |-> "detail", queue |-> a.queue, keys |-> a.keys]
    ELSE AfterDetail(c, sv, count, keys)

Init ==
    /\ cfg \in Configs
    /\ saved = 0
    /\ seenProducts = {}
    /\ detailRequests = <<>>
    /\ dataset = <<>>
    /\ sik = [offset |-> 0, page |-> 1, total |-> Infinity, count |-> 0, done |-> FALSE]
    /\ apiCount = 0
    /\ handlers = {}
    /\ listPages = 0
    /\ failedDetails = {}
    /\ nextLog = {}
    /\ call = NoCall /\ ret = Pending
    /\ LET n == IF resolveSikSearch(cfg)
                THEN [pc |-> "sik", queue |-> <<>>, keys |-> {}]
                ELSE AfterSik(cfg, 0, <<>>, 0, {})
       IN pc = n.pc /\ queue = n.queue /\ queueKeys = n.keys

\* ------------------------------------------------------------ fetchViaSik
\* Mutant of SikLoopCond: the page ceiling is not looked at.
SikLoopCondNoCeiling ==
    /\ ~sik.done
    /\ saved < cfg.MAX_PRODUCTS
    /\ sik.offset < sik.total

\* while (saved < MAX_PRODUCTS && offset < total && page <= MAX_PAGES); done
\* says that the loop was left by break.
SikLoopCond ==
    /\ ~sik.done
    /\ saved < cfg.MAX_PRODUCTS
    /\ sik.offset < sik.total
    /\ sik.page <= cfg.MAX_PAGES

\* One iteration of the while loop whose request succeeds with a PRIMARY_AREA
\* payload that carries products.
SikBatch ==
    /\ pc = "sik" /\ SikLoopCond
    /\ \E items \in SikBatches, total \in SikTotals \cup {sik.total} :
         LET st == SikItems(cfg, items, 1,
                     [saved |-> saved, seen |-> seenProducts, dreq |-> detailRequests,
                      data |-> dataset, count |-> sik.count])
         IN /\ saved' = st.saved
            /\ seenProducts' = st.seen
            /\ detailRequests' = st.dreq
            /\ dataset' = st.data
            /\ sik' = [sik EXCEPT !.count = st.count, !.total = total,
                                  !.offset = @ + WindowSize(cfg, saved),
                                  !.page = @ + 1]
    /\ listPages' = listPages + 1
    /\ UNCHANGED <<call, ret, cfg, pc, apiCount, queue, queueKeys, handlers, failedDetails,
                   nextLog>>

\* An iteration whose response has no PRIMARY_AREA payload, or no product:
\* the loop breaks.
SikBreak ==
    /\ pc = "sik" /\ SikLoopCond
    /\ sik' = [sik EXCEPT !.done = TRUE]
    /\ UNCHANGED <<call, ret, cfg, pc, saved, seenProducts, detailRequests, dataset, apiCount,
                   queue, queueKeys, handlers, hist>>

\* An iteration whose request fails on every attempt of fetchWithRetry: the
\* error leaves fetchViaSik and main() rethrows it.
SikFail ==
    /\ pc = "sik" /\ SikLoopCond
    /\ pc' = "failed"
    /\ UNCHANGED <<call, ret, cfg, saved, seenProducts, detailRequests, dataset, sik, apiCount,
                   queue, queueKeys, handlers, hist>>

\* fetchViaSik returns count; main() goes on to the next phase.
SikReturn ==
    /\ pc = "sik" /\ ~SikLoopCond
    /\ apiCount' = sik.count
    /\ LET n == AfterSik(cfg, saved, detailRequests, sik.count, queueKeys)
       IN pc' = n.pc /\ queue' = n.queue /\ queueKeys' = n.keys
    /\ UNCHANGED <<call, ret, cfg, saved, seenProducts, detailRequests, dataset, sik, handlers,
                   hist>>

\* ------------------------------------------------------------ the crawlers
\* A request handler in flight.  at is the await it is suspended on:
\*   "enq"     LIST, await enqueueLinks of the DETAIL request of found[idx]
\*   "push"    await Dataset.pushData(final), the record not yet stored
\*   "pushed"  await Dataset.pushData(final), the record stored
\* The other awaits of a handler (tryEmbeddedJson, extractProductDetails,
\* the enqueueLinks of the next page) read or write no shared state between
\* the await and the code around it, and make one step with that code.
\* jsonCount is the number of products tryEmbeddedJson returned, jsonAccepted
\* the number of them processJsonLdProduct accepted, domInvoked whether
\* extractProductsFromHtml was called.
Handler(req, at) ==
    [req |-> req, at |-> at, found |-> <<>>, idx |-> 1, details |-> <<>>,
     final |-> NoBase, jsonCount |-> 0, jsonAccepted |-> 0, domInvoked |-> FALSE]

Crawling == pc \in {"detail", "html"}
Concurrency == IF pc = "detail" THEN DetailConcurrency ELSE HtmlConcurrency
CanStart ==
    /\ Crawling /\ queue # <<>>
    /\ Cardinality(handlers) < Min(MaxInFlight, Concurrency)

\* saved >= MAX_PRODUCTS, the budget test of every handler and loop.
BudgetExhausted(c, sv) == sv >= c.MAX_PRODUCTS

\* Mutant of DomNeeded: the DOM strategy runs on every page.
DomNeededAlways(found) == TRUE

\* if (productsFound.length === 0 && $): the DOM strategy runs.
DomNeeded(found) == Len(found) = 0

\* Mutant of ShouldPaginate: the page ceiling is not looked at.
ShouldPaginateIgnoringCeiling(c, sv, pageNo, found) ==
    /\ sv < c.MAX_PRODUCTS
    /\ Len(found) > 0

\* Mutant of ShouldPaginate: the page's yield is not looked at.
ShouldPaginateIgnoringYield(c, sv, pageNo, found) ==
    /\ sv < c.MAX_PRODUCTS
    /\ pageNo < c.MAX_PAGES

\* if (saved < MAX_PRODUCTS && pageNo < MAX_PAGES && productsFound.length > 0)
ShouldPaginate(c, sv, pageNo, found) ==
    /\ sv < c.MAX_PRODUCTS
    /\ pageNo < c.MAX_PAGES
    /\ Len(found) > 0

\* Mutant of NextUrlAccepted: the loop guard is missing.
NextUrlAcceptedUnguarded(nextUrl, requestUrl) == nextUrl # NoUrl

\* if (nextUrl && nextUrl !== request.url)
NextUrlAccepted(nextUrl, requestUrl) == nextUrl # NoUrl /\ nextUrl # requestUrl

NextLogEntry(req, nextUrl, enqueued) ==
    [from |-> req.url, pageNo |-> req.pageNo, to |-> nextUrl, enqueued |-> enqueued]

\* Mutant of ListRecord: the listing record is stamped like a detail record.
ListRecordStamped(product, categoryValue) ==
    Spread(product, [category |-> categoryValue, scrapedAt |-> "now"])

\* { ...product, category: category || null }, the record a LIST handler stores.
ListRecord(product, categoryValue) == Spread(product, [category |-> categoryValue])

\* The handler h of a LIST request goes on from the head of the loop over
\* productsFound, at h.idx, with saved = sv: to the enqueueLinks or pushData
\* of that product, or past the loop to the pagination, or to its end.
\* rest are the other handlers in flight.
ListAdvance(q, rest, h, sv) ==
    IF h.idx <= Len(h.found) /\ ~BudgetExhausted(cfg, sv)
    THEN LET product == h.found[h.idx]
         IN IF NeedsDetail(cfg, product)
            THEN LET a == AddRequests(q, queueKeys,
                                      <<DetailRequest(product.url, product)>>)
                 IN /\ queue' = a.queue /\ queueKeys' = a.keys
                    /\ handlers' = rest \cup {[h EXCEPT !.at = "enq"]}
                    /\ UNCHANGED nextLog
            ELSE /\ handlers' = rest \cup
                       {[h EXCEPT !.at = "push",
                                  !.final = ListRecord(product,
                                     HtmlCrawlerCategory(cfg))]}
                 /\ queue' = q
                 /\ UNCHANGED <<queueKeys, nextLog>>
    ELSE IF ShouldPaginate(cfg, sv, h.req.pageNo, h.found)
    THEN \E elems \in NextElements(h.req.url, h.req.pageNo) :
           LET nextUrl == findNextPage(elems, h.req.url, h.req.pageNo)
           IN IF NextUrlAccepted(nextUrl, h.req.url)
              THEN LET a == AddRequests(q, queueKeys,
                                        <<ListRequest(nextUrl, h.req.pageNo + 1)>>)
                   IN /\ queue' = a.queue /\ queueKeys' = a.keys
                      /\ handlers' = rest
                      /\ nextLog' = nextLog \cup {NextLogEntry(h.req, nextUrl, TRUE)}
              ELSE /\ handlers' = rest
                   /\ nextLog' = IF nextUrl # NoUrl
                                 THEN nextLog \cup {NextLogEntry(h.req, nextUrl, FALSE)}
                                 ELSE nextLog
                   /\ queue' = q
                   /\ UNCHANGED queueKeys
    ELSE /\ handlers' = rest
         /\ queue' = q
         /\ UNCHANGED <<queueKeys, nextLog>>

\* A LIST request is taken from the queue and handled: tryEmbeddedJson, the
\* loop over jsonProducts, the DOM strategy when that found nothing, then the
\* loop over productsFound up to its first await.
StartList ==
    /\ CanStart /\ Head(queue).label = "LIST"
    /\ \E json \in JsonResults, cards \in DomPages :
         LET j == JsonLoop(cfg, saved, json, 1, [found |-> <<>>, seen |-> seenProducts])
             dom == DomNeeded(j.found)
             r == IF dom THEN extractProductsFromHtml(cards, 1, j) ELSE j
             h == [Handler(Head(queue), "enq") EXCEPT
                     !.found = r.found, !.jsonCount = Len(json),
                     !.jsonAccepted = Len(j.found), !.domInvoked = dom]
         IN /\ dom \/ cards = <<>>
            /\ seenProducts' = r.seen
            /\ ListAdvance(Tail(queue), handlers, h, saved)
    /\ listPages' = listPages + 1
    /\ UNCHANGED <<call, ret, cfg, pc, saved, detailRequests, dataset, sik, apiCount,
                   failedDetails>>

\* await enqueueLinks of a DETAIL request has returned: the next product.
ListEnqueued ==
    \E h \in handlers :
      /\ h.at = "enq"
      /\ ListAdvance(queue, handlers \ {h}, [h EXCEPT !.idx = @ + 1], saved)
      /\ UNCHANGED <<call, ret, cfg, pc, saved, seenProducts, detailRequests, dataset, sik,
                     apiCount, listPages, failedDetails>>

\* Dataset.pushData stores the record.
PushStored ==
    \E h \in handlers :
      /\ h.at = "push"
      /\ dataset' = Append(dataset, h.final)
      /\ handlers' = (handlers \ {h}) \cup {[h EXCEPT !.at = "pushed"]}
      /\ UNCHANGED <<call, ret, cfg, pc, saved, seenProducts, detailRequests, sik, apiCount,
                     queue, queueKeys, hist>>

\* await Dataset.pushData has returned in a LIST handler: saved++, then the
\* next product.
ListSaved ==
    \E h \in handlers :
      /\ h.at = "pushed" /\ h.req.label = "LIST"
      /\ saved' = saved + 1
      /\ ListAdvance(queue, handlers \ {h}, [h EXCEPT !.idx = @ + 1], saved + 1)
      /\ UNCHANGED <<call, ret, cfg, pc, seenProducts, detailRequests, dataset, sik, apiCount,
                     listPages, failedDetails>>

\* A LIST request fails on every retry: failedRequestHandler logs it.
ListFail ==
    /\ CanStart /\ Head(queue).label = "LIST"
    /\ queue' = Tail(queue)
    /\ UNCHANGED <<call, ret, cfg, pc, saved, seenProducts, detailRequests, dataset, sik,
                   apiCount, queueKeys, handlers, hist>>

\* A DETAIL request is taken from the queue while the budget is exhausted:
\* its handler returns at once.
DetailSkip ==
    /\ CanStart /\ Head(queue).label = "DETAIL"
    /\ BudgetExhausted(cfg, saved)
    /\ queue' = Tail(queue)
    /\ UNCHANGED <<call, ret, cfg, pc, saved, seenProducts, detailRequests, dataset, sik,
                   apiCount, queueKeys, handlers, hist>>

\* A DETAIL request is taken from the queue and its handler runs to
\* await Dataset.pushData(finalProduct).
StartDetail ==
    /\ CanStart /\ Head(queue).label = "DETAIL"
    /\ ~BudgetExhausted(cfg, saved)
    /\ \E page \in DetailPages :
         LET req == Head(queue)
             details == extractProductDetails(req.url, page)
             cat == IF pc = "detail" THEN DetailCrawlerCategory(cfg, req.baseData)
                    ELSE HtmlCrawlerCategory(cfg)
         IN handlers' = handlers \cup
              {[Handler(req, "push") EXCEPT
                  !.details = details,
                  !.final = FinalProduct(req.baseData, details, req.url, cat)]}
    /\ queue' = Tail(queue)
    /\ UNCHANGED <<call, ret, cfg, pc, saved, seenProducts, detailRequests, dataset, sik,
                   apiCount, queueKeys, hist>>

\* await Dataset.pushData has returned in a DETAIL handler: saved++.
DetailSaved ==
    \E h \in handlers :
      /\ h.at = "pushed" /\ h.req.label = "DETAIL"
      /\ saved' = saved + 1
      /\ handlers' = handlers \ {h}
      /\ UNCHANGED <<call, ret, cfg, pc, seenProducts, detailRequests, dataset, sik, apiCount,
                     queue, queueKeys, hist>>

\* A DETAIL request fails on every retry: failedRequestHandler logs it (and
\* retires the session); nothing is stored.
DetailFail ==
    /\ CanStart /\ Head(queue).label = "DETAIL"
    /\ queue' = Tail(queue)
    /\ failedDetails' = failedDetails \cup {Head(queue).baseData}
    /\ UNCHANGED <<call, ret, cfg, pc, saved, seenProducts, detailRequests, dataset, sik,
                   apiCount, queueKeys, handlers, listPages, nextLog>>

\* crawler.run resolves: the queue is empty and no handler is in flight.
DetailCrawlerDone ==
    /\ pc = "detail" /\ queue = <<>> /\ handlers = {}
    /\ LET n == AfterDetail(cfg, saved, apiCount, queueKeys)
       IN pc' = n.pc /\ queue' = n.queue /\ queueKeys' = n.keys
    /\ UNCHANGED <<call, ret, cfg, saved, seenProducts, detailRequests, dataset, sik, apiCount,
                   handlers, hist>>

HtmlCrawlerDone ==
    /\ pc = "html" /\ queue = <<>> /\ handlers = {}
    /\ pc' = "done"
    /\ UNCHANGED <<call, ret, cfg, saved, seenProducts, detailRequests, dataset, sik, apiCount,
                   queue, queueKeys, handlers, hist>>

Next ==
    \/ SikBatch \/ SikBreak \/ SikFail \/ SikReturn
    \/ StartList \/ ListEnqueued \/ PushStored \/ ListSaved
    \/ ListFail
    \/ DetailSkip \/ StartDetail \/ DetailSaved \/ DetailFail
    \/ DetailCrawlerDone \/ HtmlCrawlerDone

Spec == Init /\ [][Next]_vars

\* ------------------------------------------------------------ the HTML crawl of one start URL
\* The runs that go straight to the HTML crawler with one start URL, and the
\* steps of that crawl.  The crawler takes the next request whenever one is
\* queued and a handler slot is free, and every await of a handler resolves:
\* a step that stays possible is taken.
ChainInit == Init /\ pc = "html" /\ Len(cfg.startUrls) = 0
ChainNext ==
    \/ StartList \/ ListEnqueued \/ PushStored \/ ListSaved \/ ListFail
    \/ DetailSkip \/ StartDetail \/ DetailSaved \/ DetailFail
    \/ HtmlCrawlerDone
ChainSpec == ChainInit /\ [][ChainNext]_vars /\ WF_vars(ChainNext)

\* ------------------------------------------------------------ runs in which pushData rejects
\* Mutant of SavedAfterFailedPush: saved++ stands before await pushData.
SavedCountsFailedPush(sv) == sv + 1

\* await Dataset.pushData(...); saved++;  when pushData rejects, the throw
\* skips saved++.
SavedAfterFailedPush(sv) == sv

\* Dataset.pushData rejects in a handler.  A DETAIL handler catches the
\* error and logs it.  A LIST handler has no catch: the handler throws and
\* the crawler puts the request back to run it again (maxRequestRetries),
\* or gives it up when its retries are used up.
PushFail ==
    \E h \in handlers :
      /\ h.at = "push"
      /\ saved' = SavedAfterFailedPush(saved)
      /\ handlers' = handlers \ {h}
      /\ IF h.req.label = "LIST"
         THEN queue' = Append(queue, h.req) \/ queue' = queue
         ELSE queue' = queue
      /\ UNCHANGED <<call, ret, cfg, pc, seenProducts, detailRequests, dataset, sik,
                     apiCount, queueKeys, hist>>

\* Dataset.pushData rejects in fetchViaSik, at item k of a batch: the items
\* before it are handled, the id of item k is claimed, and the error leaves
\* fetchViaSik and main().
SikPushFail ==
    /\ pc = "sik" /\ SikLoopCond
    /\ \E items \in SikBatches :
         \E k \in 1..Len(items) :
           LET st == SikItems(cfg, SubSeq(items, 1, k - 1), 1,
                       [saved |-> saved, seen |-> seenProducts, dreq |-> detailRequests,
                        data |-> dataset, count |-> sik.count])
               id == SikProductId(items[k])
           IN /\ ~BudgetExhausted(cfg, st.saved)
              /\ Truthy(id) /\ ~SeenHas(st.seen, id)
              /\ ~NeedsDetail(cfg, mapSikProduct(items[k], cfg.category))
              /\ saved' = SavedAfterFailedPush(st.saved)
              /\ seenProducts' = SeenAdd(st.seen, id)
              /\ detailRequests' = st.dreq
              /\ dataset' = st.data
              /\ sik' = [sik EXCEPT !.count = st.count]
    /\ pc' = "failed"
    /\ UNCHANGED <<call, ret, cfg, apiCount, queue, queueKeys, handlers, hist>>

\* The runs from one start URL, with every step of Next and the two above.
FaultInit == Init /\ cfg.startUrls = <<CatUrl>>
FaultNext == Next \/ PushFail \/ SikPushFail
FaultSpec == FaultInit /\ [][FaultNext]_vars

\* ------------------------------------------------------------ fetchViaSik on its own
\* The runs that start with fetchViaSik, up to its return; maxProducts is
\* small or the default of the input, which leaves the window at
\* DEFAULT_PAGE_SIZE.  The loop is sequential code whose awaits (a request
\* with a bounded number of attempts and a timeout, pushData) all settle: a
\* step that stays possible is taken.
DefaultMaxProducts == 100
SikConfigs ==
    {c \in { [startUrls |-> s.startUrls, category |-> s.category,
              MAX_PRODUCTS |-> mp, MAX_PAGES |-> pg, collectDetails |-> cd] :
               s \in StartChoices,
               mp \in (1..MaxProductsCfg) \cup {DefaultMaxProducts},
               pg \in 1..MaxPagesCfg, cd \in BOOLEAN } : resolveSikSearch(c)}
SikInit ==
    /\ cfg \in SikConfigs
    /\ pc = "sik" /\ queue = <<>> /\ queueKeys = {}
    /\ saved = 0
    /\ seenProducts = {}
    /\ detailRequests = <<>>
    /\ dataset = <<>>
    /\ sik = [offset |-> 0, page |-> 1, total |-> Infinity, count |-> 0, done |-> FALSE]
    /\ apiCount = 0
    /\ handlers = {}
    /\ listPages = 0
    /\ failedDetails = {}
    /\ nextLog = {}
    /\ call = NoCall /\ ret = Pending
SikNext == SikBatch \/ SikBreak \/ SikFail \/ SikReturn
SikSpec == SikInit /\ [][SikNext]_vars /\ WF_vars(SikNext)

\* ------------------------------------------------------------ functions on their own
\* Bounds of the inputs the functions are evaluated on.
\* maxProducts ranges over the numbers -MaxInputTenths/10 .. MaxInputTenths/10.
MaxInputTenths == 25
\* saved ranges over 0 .. MaxSavedProbe in the budget test.
MaxSavedProbe == 3
\* The number of next-page selectors that match on a page is at most this.
MaxNextElems == 2

\* A JavaScript number: a finite number in tenths, NaN, an infinity, or
\* Number.MAX_SAFE_INTEGER (2^53 - 1), which stands for itself.
Num(t) == [kind |-> "num", tenths |-> t]
NaN == [kind |-> "NaN", tenths |-> 0]
PosInfinity == [kind |-> "Infinity", tenths |-> 0]
NegInfinity == [kind |-> "-Infinity", tenths |-> 0]
MAX_SAFE_INTEGER == [kind |-> "MAX_SAFE_INTEGER", tenths |-> 0]

\* An input value: a number, a string, a boolean, null or undefined.
Raw(type, num, text) == [type |-> type, num |-> num, text |-> text]
RawInputs ==
    {Raw("number", Num(t), "") : t \in -MaxInputTenths..MaxInputTenths}
      \cup {Raw("number", n, "") : n \in {NaN, PosInfinity, NegInfinity}}
      \cup {Raw("string", NaN, t) : t \in {"", "abc", "2", "Infinity"}}
      \cup {Raw("boolean", NaN, t) : t \in {"true", "false"}}
      \cup {Raw("null", NaN, ""), Raw("undefined", NaN, "")}

\* +value, the unary plus.
ToNumber(raw) ==
    CASE raw.type = "number" -> raw.num
      [] raw.type = "string" ->
           (CASE raw.text = "" -> Num(0)
              [] raw.text = "2" -> Num(20)
              [] raw.text = "Infinity" -> PosInfinity
              [] OTHER -> NaN)
      [] raw.type = "boolean" -> IF raw.text = "true" THEN Num(10) ELSE Num(0)
      [] raw.type = "null" -> Num(0)
      [] OTHER -> NaN

\* const { maxProducts = 100 } = input: the default replaces undefined only.
MaxProductsInput(raw) ==
    IF raw.type = "undefined" THEN Raw("number", Num(DefaultMaxProducts * 10), "")
    ELSE raw

\* Number.isFinite(n) on the numbers of the model.
IsFinite(n) == n.kind \in {"num", "MAX_SAFE_INTEGER"}

\* Mutant of MaxProductsOf: a non-positive input is clamped to 1.
MaxProductsClamped(raw) ==
    LET n == ToNumber(MaxProductsInput(raw))
    IN IF IsFinite(n) THEN Num(IF n.tenths < 10 THEN 10 ELSE n.tenths)
       ELSE MAX_SAFE_INTEGER

\* const MAX_PRODUCTS = Number.isFinite(+maxProducts) && +maxProducts > 0
\*     ? Math.max(1, +maxProducts) : Number.MAX_SAFE_INTEGER
MaxProductsOf(raw) ==
    LET n == ToNumber(MaxProductsInput(raw))
    IN IF IsFinite(n) /\ n.tenths > 0
       THEN Num(IF n.tenths < 10 THEN 10 ELSE n.tenths)
       ELSE MAX_SAFE_INTEGER

\* saved >= MAX_PRODUCTS, saved a count of records: a count is always below
\* Number.MAX_SAFE_INTEGER.
SavedReaches(sv, max) ==
    IF max.kind = "MAX_SAFE_INTEGER" THEN FALSE ELSE sv * 10 >= max.tenths

\* The href of a next-page element that new URL() cannot parse.
BadHref == [host |-> "??", kind |-> "list", seg |-> <<>>, page |-> 0, offset |-> -1]
OffsetUrl == LUrl(IkeaHost, <<"gb", "en", "cat", "beds">>, 0, 0)
ListingUrls == {CatUrl, SearchUrl, OffsetUrl}

\* What the first match of a next-page selector can be on the page url.
NextElementChoices(url, pageNo) ==
    { [href |-> NoUrl, disabled |-> FALSE],
      [href |-> [url EXCEPT !.host = ""], disabled |-> FALSE],
      [href |-> LUrl("", url.seg, 0, 7), disabled |-> FALSE],
      [href |-> LUrl(IkeaHost, url.seg, pageNo + 1, -1), disabled |-> TRUE],
      [href |-> BadHref, disabled |-> FALSE] }

SeqsUpTo(S, n) == UNION {[1..k -> S] : k \in 0..n}

\* ---- extractProductDetails: features and images
\* The page has at most MaxTexts li, span and p elements.
MaxTexts == 7
\* An image selector matches at most MaxImgs elements.
MaxImgs == 2
\* features.length < 10 while scanning, .slice(0, 5) after the filter.
FeatureScanCap == 10
FeatureCap == 5

\* Mutant of Includes: the element is never found.
IncludesNever(sq, x) == FALSE

\* Array.prototype.includes
Includes(sq, x) == \E i \in 1..Len(sq) : sq[i] = x

\* The trimmed text of an element: id names the string; usable says that its
\* length is in 11..199 and that it does not start with a digit; cta that it
\* matches /Add to|Select|Choose/i.
Text(id, usable, cta) == [id |-> id, usable |-> usable, cta |-> cta]
\* The element at position i holds a string not seen before, the string of
\* the first element, a call to action, or a string that is too short.
TextKinds == {"new", "first", "cta", "short"}
RECURSIVE TextAt(_, _)
TextAt(kinds, i) ==
    CASE kinds[i] = "new" -> Text(i, TRUE, FALSE)
      [] kinds[i] = "cta" -> Text(0, TRUE, TRUE)
      [] kinds[i] = "short" -> Text(-1, FALSE, FALSE)
      [] OTHER -> IF kinds[1] = "first" THEN Text(1, TRUE, FALSE)
                  ELSE TextAt(kinds, 1)
TextsOf(kinds) == [i \in 1..Len(kinds) |-> TextAt(kinds, i)]
PageTexts == {TextsOf(k) : k \in SeqsUpTo(TextKinds, MaxTexts)}

\* $('li, span, p').each(...): the texts kept while scanning.
RECURSIVE ScanFeatures(_, _, _)
ScanFeatures(texts, i, features) ==
    IF i > Len(texts) THEN features
    ELSE IF /\ texts[i].usable
            /\ ~Includes(features, texts[i])
            /\ Len(features) < FeatureScanCap
    THEN ScanFeatures(texts, i + 1, Append(features, texts[i]))
    ELSE ScanFeatures(texts, i + 1, features)

Slice(sq, n) == SubSeq(sq, 1, Min(n, Len(sq)))
NotCta(f) == f.usable /\ ~f.cta
\* cleanedFeatures; data.features is null when it is empty, which <<>>
\* stands for.
cleanedFeatures(texts) ==
    Slice(SelectSeq(ScanFeatures(texts, 1, <<>>), NotCta), FeatureCap)

\* The src of an img: products says that it contains 'products', excluded
\* that it contains 'spacer', 'placeholder' or 'favicon'.
Src(id, products, excluded) == [id |-> id, products |-> products, excluded |-> excluded]
ImageSrcs == {Src(1, TRUE, FALSE), Src(2, TRUE, FALSE), Src(3, TRUE, TRUE)}
\* The selectors tried in turn. Of the five of the source the first two are
\* kept: each later one is reached as the second is, when all before it gave
\* no image.
imageSelectors == <<"img[class*=pip-media]", "[class*=product-image] img">>
PageImages == [1..Len(imageSelectors) -> SeqsUpTo(ImageSrcs, MaxImgs)]

\* $(sel).each(...): the srcs one selector adds to images.
RECURSIVE ScanImages(_, _, _)
ScanImages(srcs, i, images) ==
    IF i > Len(srcs) THEN images
    ELSE IF ~srcs[i].excluded /\ ~Includes(images, srcs[i]) /\ srcs[i].products
    THEN ScanImages(srcs, i + 1, Append(images, srcs[i]))
    ELSE ScanImages(srcs, i + 1, images)

\* The loop over imageSelectors, with its break at the first selector that
\* gave an image; data.images is null when none did, which <<>> stands for.
RECURSIVE ExtractImages(_, _)
ExtractImages(matches, sel) ==
    IF sel > Len(matches) THEN <<>>
    ELSE LET images == ScanImages(matches[sel], 1, <<>>)
         IN IF Len(images) > 0 THEN images ELSE ExtractImages(matches, sel + 1)

\* ---- fetchWithRetry
\* fetchWithRetry is called with at most MaxAttempts attempts.
MaxAttempts == 3
\* err.response?.statusCode of a failed attempt; "none" when the error
\* carries no response.
Statuses == {"429", "502", "504", "590", "404", "500", "none"}

\* Mutant of Retriable: every failure is retried.
RetriableAny(status) == TRUE

\* status === 590 || status === 502 || status === 504 || status === 429
Retriable(status) == status \in {"590", "502", "504", "429"}

\* Mutant of ThrownError: the error of the first attempt is thrown.
ThrownErrorFirst(log) == log[1]

\* throw lastErr: the error of the last attempt made.
ThrownError(log) == log[Len(log)]

\* The locals of a call of fetchWithRetry before its first attempt: i, the
\* outcomes of the attempts made, and how the call stands.
FetchStart == [i |-> 1, log |-> <<>>, state |-> "running", thrown |-> ""]

\* ---- the three listing shapes of one product
\* A product by its values, whatever the source.
LogicalProducts ==
    {[id |-> "1", name |-> "BILLY", price |-> pr, currency |-> cu, rating |-> ra,
      reviewCount |-> rc, availability |-> av] :
        pr \in {Null, "10"}, cu \in {Null, "GBP"}, ra \in {Null, "4"},
        rc \in {Null, "7"}, av \in {Null, "In stock"}}
\* The product as the SIK API, a JSON-LD item and a product card carry it.
AsSik(p) ==
    [itemNo |-> p.id, name |-> p.name, typeName |-> Null, numeral |-> p.price,
     currencyCode |-> p.currency, pipUrl |-> Billy1, ratingValue |-> p.rating,
     ratingCount |-> p.reviewCount,
     availability |-> IF p.availability = Null THEN <<>> ELSE <<p.availability>>]
AsJsonLd(p) ==
    [id |-> p.id, sku |-> Null, name |-> p.name, itemName |-> Null,
     offerPrice |-> p.price, price |-> Null, offerCurrency |-> p.currency,
     currency |-> Null, image |-> Null, url |-> Billy1, ratingValue |-> p.rating,
     reviewCount |-> p.reviewCount, offerAvailability |-> p.availability]
AsCard(p) ==
    [links |-> <<Billy1>>, name |-> p.name, ariaLabel |-> Null,
     firstNumber |-> p.price, rating |-> p.rating, reviews |-> p.reviewCount,
     image |-> Null]

\* ---- tryEmbeddedJson
\* A page carries at most MaxBlocks JSON-LD script blocks.
MaxBlocks == 2
\* A JSON-LD block: text that does not parse, the JSON value null, an
\* ItemList with or without elements or without itemListElement, a Product,
\* or another type.
BlockKinds == {"malformed", "null", "ItemList", "ItemListEmpty", "ItemListBare",
               "Product", "other"}
\* What the body of the inner try does with a block: it throws (JSON.parse,
\* or data['@type'] of null), returns the block's products, or goes on.
BlockOutcome(b) ==
    CASE b \in {"malformed", "null"} -> "throw"
      [] b \in {"ItemList", "ItemListEmpty", "Product"} -> "return"
      [] OTHER -> "next"
BlockProducts(b) ==
    CASE b = "ItemList" -> <<JsonA, JsonSku>>
      [] b = "Product" -> <<JsonA>>
      [] OTHER -> <<>>

\* Mutant of InnerCatch: the error of a block is not caught.
InnerCatchRethrows(outcome) == outcome

\* catch (e) { log.debug(...) } around one block: the loop goes on.
InnerCatch(outcome) == IF outcome = "throw" THEN "next" ELSE outcome

RECURSIVE ScanBlocks(_, _)
ScanBlocks(blocks, i) ==
    IF i > Len(blocks) THEN [outcome |-> "none", from |-> 0]
    ELSE LET o == InnerCatch(BlockOutcome(blocks[i]))
         IN IF o = "next" THEN ScanBlocks(blocks, i + 1)
            ELSE [outcome |-> o, from |-> i]

\* What tryEmbeddedJson returns: products (isNull when null, else taken from
\* block number from), whether html is set, and whether it threw.
JsonReturn(isNull, from, products, html, threw) ==
    [isNull |-> isNull, from |-> from, products |-> products, html |-> html,
     threw |-> threw]
\* catch (err) { return { products: null, html: null } }
OuterCatch(r) == IF r.threw THEN JsonReturn(TRUE, 0, <<>>, FALSE, FALSE) ELSE r

tryEmbeddedJson(fetchOk, blocks) ==
    OuterCatch(
      IF ~fetchOk THEN JsonReturn(TRUE, 0, <<>>, FALSE, TRUE)
      ELSE LET r == ScanBlocks(blocks, 1)
           IN CASE r.outcome = "return" ->
                     JsonReturn(FALSE, r.from, BlockProducts(blocks[r.from]), TRUE, FALSE)
                [] r.outcome = "throw" -> JsonReturn(TRUE, 0, <<>>, FALSE, TRUE)
                [] OTHER -> JsonReturn(TRUE, 0, <<>>, TRUE, FALSE))

\* ---- extractProductsFromHtml on its own
\* The first matching card selector finds at most MaxCards elements.
MaxCards == 3
\* Cards beside those of the listing pages: one without a link to a product
\* page, one whose text holds no number but 0, and one with the id of
\* CardNoName and a name.
CardNoLink == [links |-> <<NoUrl, NoUrl>>, name |-> "LACK", ariaLabel |-> Null,
               firstNumber |-> "5", rating |-> Null, reviews |-> Null, image |-> Null]
CardFree == [links |-> <<Malm2>>, name |-> "MALM", ariaLabel |-> Null,
             firstNumber |-> "0", rating |-> Null, reviews |-> Null, image |-> Null]
CardKallax == [links |-> <<Kallax1>>, name |-> "KALLAX", ariaLabel |-> Null,
               firstNumber |-> "20", rating |-> Null, reviews |-> Null, image |-> Null]
Cards == {CardBilly, CardMalm, CardNoName, CardNoId, CardNoLink, CardFree, CardKallax}
\* seenProducts when the function is called.
SeenBefore == {{}, {"2"}}

\* ---- the LIST handler on one page, and its retry
\* The loop over productsFound of the LIST handler, run without another
\* handler in between: st carries saved, the products enqueued for detail
\* or stored, and whether an await threw.  failAt is the position of the
\* product whose enqueueLinks or pushData rejects, 0 when none does.
RECURSIVE HandleFound(_, _, _, _, _)
HandleFound(c, found, i, failAt, st) ==
    IF i > Len(found) \/ BudgetExhausted(c, st.saved) THEN st
    ELSE IF i = failAt THEN [st EXCEPT !.threw = TRUE]
    ELSE IF NeedsDetail(c, found[i])
    THEN HandleFound(c, found, i + 1, failAt,
           [st EXCEPT !.handled = Append(@, found[i])])
    ELSE HandleFound(c, found, i + 1, failAt,
           [st EXCEPT !.handled = Append(@, found[i]), !.saved = @ + 1])

\* One run of the LIST handler on a page: the strategies, the loop over
\* productsFound, and whether the pagination block is entered.
ListPage(c, sv, seen, json, cards, pageNo, failAt) ==
    LET j == JsonLoop(c, sv, json, 1, [found |-> <<>>, seen |-> seen])
        r == IF DomNeeded(j.found) THEN extractProductsFromHtml(cards, 1, j) ELSE j
        st == HandleFound(c, r.found, 1, failAt,
                          [saved |-> sv, handled |-> <<>>, threw |-> FALSE])
    IN [found |-> r.found, seen |-> r.seen, saved |-> st.saved,
        handled |-> st.handled, threw |-> st.threw,
        paginates |-> ~st.threw /\ ShouldPaginate(c, st.saved, pageNo, r.found)]

\* The handler threw: the crawler runs it again on the same request
\* (maxRequestRetries: 3), with saved and seenProducts as the failed run
\* left them, and this time no await rejects.
ListRetry(c, json, cards, pageNo, first) ==
    IF first.threw
    THEN ListPage(c, first.saved, first.seen, json, cards, pageNo, 0)
    ELSE [first EXCEPT !.handled = <<>>]

ListPageCalls ==
    {[fn |-> "listPage", c |-> c, saved |-> sv, seen |-> sn, json |-> j,
      cards |-> cs, pageNo |-> n, failAt |-> k] :
        c \in {[startUrls |-> <<CatUrl>>, category |-> "", MAX_PRODUCTS |-> mp,
                MAX_PAGES |-> MaxPagesCfg, collectDetails |-> cd] :
                  mp \in 1..MaxProductsCfg, cd \in BOOLEAN},
        sv \in 0..1, sn \in SUBSET {"1", "2"}, j \in JsonResults, cs \in DomPages,
        n \in 1..MaxPagesCfg, k \in 0..MaxProductsCfg}

PureCalls ==
    {[fn |-> "MAX_PRODUCTS", raw |-> r, saved |-> sv] :
        r \in RawInputs, sv \in 0..MaxSavedProbe}
      \cup UNION {
        {[fn |-> "findNextPage", elems |-> e, currentUrl |-> u, pageNo |-> n] :
            e \in SeqsUpTo(NextElementChoices(u, n), MaxNextElems)} :
          u \in ListingUrls, n \in 1..MaxPagesCfg}
      \cup {[fn |-> "features", texts |-> t] : t \in PageTexts}
      \cup {[fn |-> "images", matches |-> m] : m \in PageImages}
      \cup {[fn |-> "fetchWithRetry", attempts |-> a] : a \in 1..MaxAttempts}
      \cup {[fn |-> "normalize", product |-> p] : p \in LogicalProducts}
      \cup {[fn |-> "tryEmbeddedJson", fetchOk |-> ok, blocks |-> b] :
              ok \in BOOLEAN, b \in SeqsUpTo(BlockKinds, MaxBlocks)}
      \cup {[fn |-> "extractProductsFromHtml", cards |-> c, seen |-> sn] :
              c \in SeqsUpTo(Cards, MaxCards), sn \in SeenBefore}
      \cup ListPageCalls

PureInit ==
    /\ call \in PureCalls
    /\ ret = Pending
    /\ cfg = [startUrls |-> <<>>, category |-> "", MAX_PRODUCTS |-> 1,
              MAX_PAGES |-> 1, collectDetails |-> FALSE]
    /\ pc = "idle"
    /\ saved = 0
    /\ seenProducts = {}
    /\ detailRequests = <<>>
    /\ dataset = <<>>
    /\ sik = [offset |-> 0, page |-> 1, total |-> Infinity, count |-> 0, done |-> FALSE]
    /\ apiCount = 0
    /\ queue = <<>>
    /\ queueKeys = {}
    /\ handlers = {}
    /\ listPages = 0
    /\ failedDetails = {}
    /\ nextLog = {}

run == <<cfg, pc, saved, seenProducts, detailRequests, dataset, sik, apiCount,
         queue, queueKeys, handlers, listPages, failedDetails, nextLog>>

\* MAX_PRODUCTS is computed from the input, and saved is compared with it.
EvalMaxProducts ==
    /\ call.fn = "MAX_PRODUCTS" /\ ret = Pending
    /\ LET max == MaxProductsOf(call.raw)
       IN ret' = [max |-> max, exhausted |-> SavedReaches(call.saved, max)]
    /\ UNCHANGED <<call, run>>

EvalFindNextPage ==
    /\ call.fn = "findNextPage" /\ ret = Pending
    /\ ret' = findNextPage(call.elems, call.currentUrl, call.pageNo)
    /\ UNCHANGED <<call, run>>

EvalFeatures ==
    /\ call.fn = "features" /\ ret = Pending
    /\ ret' = [features |-> cleanedFeatures(call.texts)]
    /\ UNCHANGED <<call, run>>

EvalImages ==
    /\ call.fn = "images" /\ ret = Pending
    /\ ret' = [images |-> ExtractImages(call.matches, 1)]
    /\ UNCHANGED <<call, run>>

\* One attempt of fetchWithRetry: gotScraping resolves, or it rejects with a
\* status; then the loop returns, breaks and throws, or sleeps and goes on.
FetchAttempt ==
    /\ call.fn = "fetchWithRetry"
    /\ LET st == IF ret = Pending THEN FetchStart ELSE ret
       IN /\ st.state = "running"
          /\ \E outcome \in {"ok"} \cup Statuses :
               LET log1 == Append(st.log, outcome)
               IN IF outcome = "ok"
                  THEN ret' = [st EXCEPT !.log = log1, !.state = "returned"]
                  ELSE IF st.i = call.attempts \/ ~Retriable(outcome)
                  THEN ret' = [st EXCEPT !.log = log1, !.state = "thrown",
                                         !.thrown = ThrownError(log1)]
                  ELSE ret' = [st EXCEPT !.log = log1, !.i = @ + 1]
    /\ UNCHANGED <<call, run>>

EvalNormalize ==
    /\ call.fn = "normalize" /\ ret = Pending
    /\ ret' = [sik |-> mapSikProduct(AsSik(call.product), ""),
               jsonld |-> processJsonLdProduct(AsJsonLd(call.product), ""),
               dom |-> DomProduct(AsCard(call.product))]
    /\ UNCHANGED <<call, run>>

EvalTryEmbeddedJson ==
    /\ call.fn = "tryEmbeddedJson" /\ ret = Pending
    /\ ret' = tryEmbeddedJson(call.fetchOk, call.blocks)
    /\ UNCHANGED <<call, run>>

EvalExtractProducts ==
    /\ call.fn = "extractProductsFromHtml" /\ ret = Pending
    /\ ret' = extractProductsFromHtml(call.cards, 1,
                                      [found |-> <<>>, seen |-> call.seen])
    /\ UNCHANGED <<call, run>>

EvalListPage ==
    /\ call.fn = "listPage" /\ ret = Pending
    /\ LET first == ListPage(call.c, call.saved, call.seen, call.json, call.cards,
                             call.pageNo, call.failAt)
       IN ret' = [first |-> first,
                  retry |-> ListRetry(call.c, call.json, call.cards, call.pageNo, first)]
    /\ UNCHANGED <<call, run>>

PureNext ==
    \/ EvalMaxProducts \/ EvalFindNextPage
    \/ EvalFeatures \/ EvalImages
    \/ FetchAttempt
    \/ EvalNormalize
    \/ EvalTryEmbeddedJson
    \/ EvalExtractProducts
    \/ EvalListPage

PureSpec == PureInit /\ [][PureNext]_vars

\* ------------------------------------------------------------ properties
Indices(sq) == 1..Len(sq)
Requests(q) == {q[i] : i \in Indices(q)}
\* The requests a step adds to the crawler's queue.
NewRequests == Requests(queue') \ Requests(queue)
\* The handlers that return in a step.
Returned == handlers \ handlers'
DetailHandlers == {h \in handlers : h.req.label = "DETAIL"}
ListHandlers == {h \in handlers : h.req.label = "LIST"}
RecordsWithId(id) == {i \in Indices(dataset) : Get(dataset[i], "productId") = id}

\* C1: at every point of a run the number of records pushed to the dataset
\* is at most MAX_PRODUCTS.
C1_DatasetWithinBudget == Len(dataset) <= cfg.MAX_PRODUCTS

\* C2: the number of records stored with a given productId during a run is
\* 0 or 1.
C2_OneRecordPerId ==
    \A i \in Indices(dataset) :
        Get(dataset[i], "productId") # Null =>
            Cardinality(RecordsWithId(dataset[i].productId)) = 1

\* C3: over a whole run, the number of listing pages processed (SIK batches
\* plus LIST requests handled, over all start URLs) never exceeds MAX_PAGES.
C3_PagesWithinCeiling == listPages <= cfg.MAX_PAGES

MergedFields(h) ==
    (DOMAIN h.req.baseData \cup DOMAIN h.details) \ {"url", "category", "scrapedAt"}

\* C5: the record a DETAIL handler stores is the field-by-field merge of
\* baseData and the detail result: the detail value when that is non-null and
\* the listing value otherwise.
C5_MergeKeepsListingValue ==
    \A h \in DetailHandlers :
        \A k \in MergedFields(h) :
            Get(h.final, k) = IF Get(h.details, k) # Null THEN h.details[k]
                              ELSE Get(h.req.baseData, k)

\* The records of the dataset that carry every listing-derived field of b.
ListingRecordsOf(b) ==
    {i \in Indices(dataset) :
        /\ \A k \in DOMAIN b \ {"category"} :
              k \in DOMAIN dataset[i] /\ dataset[i][k] = b[k]
        /\ Get(dataset[i], "availability") # Null}

\* C6: when the detail fetch of a queued product fails and the listing record
\* has a name, exactly one record is stored for that product, carrying the
\* listing-derived fields and a non-null availability.  Stated of a finished
\* run that never exhausted its budget.
C6_FailedDetailKeepsListingRecord ==
    (pc = "done" /\ ~BudgetExhausted(cfg, saved)) =>
        \A b \in failedDetails :
            Truthy(b.name) => Cardinality(ListingRecordsOf(b)) = 1

\* C7: a SIK API request that fails on all attempts does not end the run:
\* main() never throws.
C7_RunSurvivesFetchFailure == pc # "failed"

\* C8: the LIST handler calls enqueueLinks for a next listing page only if,
\* at that point, saved < MAX_PRODUCTS, pageNo < MAX_PAGES and the page
\* produced at least one product.
C8_NextPageOnlyWhenAllThreeHold ==
    [][\A e \in nextLog' \ nextLog :
          e.enqueued =>
            \E h \in Returned :
                /\ h.req.label = "LIST" /\ h.req.url = e.from
                /\ h.req.pageNo = e.pageNo
                /\ saved' < cfg.MAX_PRODUCTS
                /\ h.req.pageNo < cfg.MAX_PAGES
                /\ Len(h.found) > 0]_vars

\* C8, witness: a next listing page was enqueued and waits in the queue.
C8_Witness ==
    \E e \in nextLog : e.enqueued /\ ListRequest(e.to, e.pageNo + 1) \in Requests(queue)

\* C9: enqueueLinks is never called for a next page whose URL is the URL of
\* the page just processed.
C9_NeverEnqueuesCurrentUrl ==
    \A e \in nextLog : e.enqueued => e.to # e.from

\* C9, witness: findNextPage computed the URL of the current page and the
\* traversal of that chain halted.
C9_Witness ==
    \E e \in nextLog :
        /\ e.to = e.from /\ ~e.enqueued
        /\ \A r \in Requests(queue) : ~(r.label = "LIST" /\ r.pageNo = e.pageNo + 1)

\* C10: once saved >= MAX_PRODUCTS no new work is scheduled and no further
\* record is stored.
C10_NothingAfterExhaustion ==
    [][BudgetExhausted(cfg, saved) =>
          /\ dataset' = dataset
          /\ detailRequests' = detailRequests
          /\ NewRequests = {}
          /\ nextLog' = nextLog]_vars

\* C11: of the candidates one listing page yielded, at most MAX_PRODUCTS are
\* ever scheduled for a detail fetch: the candidates beyond the ceiling are
\* not enqueued.
C11_PageSchedulesWithinCeiling ==
    \A h \in ListHandlers :
        Cardinality({r \in Requests(queue) :
                        /\ r.label = "DETAIL"
                        /\ \E i \in Indices(h.found) : r.baseData = h.found[i]})
            <= cfg.MAX_PRODUCTS

DistinctIds(sq) ==
    \A i, j \in Indices(sq) : i # j => sq[i].productId # sq[j].productId
\* The records a step of fetchViaSik yields: those it stores and those it
\* keeps for the detail crawler.
YieldedBySik ==
    SubSeq(dataset', Len(dataset) + 1, Len(dataset'))
      \o [i \in 1..(Len(detailRequests') - Len(detailRequests)) |->
            detailRequests'[Len(detailRequests) + i].baseData]
FreshIds == seenProducts' \ seenProducts

\* C12: claiming an id is one atomic step.  The records a step yields (a SIK
\* batch, or the JSON-LD and DOM extraction of a listing page) carry pairwise
\* distinct ids, none of which was in seenProducts before the step, and all
\* of which are in it after.
C12_ClaimIsAtomic ==
    [][/\ pc = "sik" =>
            /\ DistinctIds(YieldedBySik)
            /\ \A i \in Indices(YieldedBySik) : YieldedBySik[i].productId \in FreshIds
       /\ (pc = "html" /\ listPages' # listPages) =>
            \A h \in handlers' \ handlers :
                /\ DistinctIds(h.found)
                /\ \A i \in Indices(h.found) : h.found[i].productId \in FreshIds]_vars

\* C12, witness: a listing page whose JSON-LD block carried ids "1" and "2",
\* where "1" had been claimed before and only "2" gave a record.
C12_Witness ==
    \E h \in ListHandlers :
        /\ h.jsonCount = 2 /\ h.jsonAccepted = 1
        /\ Len(h.found) = 1 /\ h.found[1].productId = "2"
        /\ "1" \in seenProducts

\* main(), lines 1503-1506: the completion message with the saved count, and
\* the warning when that count is zero.  They are reached when main() leaves
\* its try block normally.
CompletionReport ==
    [reported |-> pc = "done",
     count |-> IF pc = "done" THEN saved ELSE 0,
     warning |-> pc = "done" /\ saved = 0]
\* main() has left its try block, normally or by the rethrown error.
RunEnded == pc \in {"done", "failed"}

\* C13: a run that has ended has reported its final saved count, and the
\* zero-records warning when it saved nothing.
C13_EndedRunReported ==
    RunEnded =>
        /\ CompletionReport.reported
        /\ CompletionReport.count = saved
        /\ saved = 0 => CompletionReport.warning

\* C14: MAX_PRODUCTS is Number.MAX_SAFE_INTEGER when +maxProducts is 0,
\* negative, NaN or infinite, and max(1, +maxProducts) when it is finite and
\* positive; with the sentinel the test saved >= MAX_PRODUCTS is the same
\* comparison and is never true.
C14_ZeroMeansUnlimited ==
    (call.fn = "MAX_PRODUCTS" /\ ret # Pending) =>
        LET n == ToNumber(MaxProductsInput(call.raw))
            positive == n.kind = "num" /\ n.tenths > 0
        IN /\ ~positive => ret.max = MAX_SAFE_INTEGER /\ ~ret.exhausted
           /\ positive =>
                /\ ret.max = Num(IF n.tenths >= 10 THEN n.tenths ELSE 10)
                /\ ret.exhausted <=> (call.saved * 10 >= ret.max.tenths)

\* C14, witness: maxProducts = 0 gave the sentinel, and a positive count of
\* saved records does not exhaust it.
C14_Witness ==
    /\ call.fn = "MAX_PRODUCTS" /\ ret # Pending
    /\ call.raw = Raw("number", Num(0), "")
    /\ call.saved > 0
    /\ ret.max = MAX_SAFE_INTEGER /\ ~ret.exhausted

\* C15: in every record of the dataset price and currency are both non-null
\* or both null.
C15_PriceAndCurrencyTogether ==
    \A i \in Indices(dataset) :
        (Get(dataset[i], "price") # Null) <=> (Get(dataset[i], "currency") # Null)

\* C16: every record of the dataset has a non-empty productId.
C16_RecordsHaveId ==
    \A i \in Indices(dataset) : Truthy(Get(dataset[i], "productId"))

\* C17: no record of the dataset has both its name and its productId null.
C17_NameOrIdPresent ==
    \A i \in Indices(dataset) :
        Get(dataset[i], "name") # Null \/ Get(dataset[i], "productId") # Null

\* C18: the HTML listing crawl runs only in a run whose SIK API phase is over
\* and yielded no product.
C18_HtmlOnlyAfterEmptyApi ==
    pc = "html" => pc # "sik" /\ apiCount = 0

SetMin(S) == CHOOSE x \in S : \A y \in S : x <= y
\* The next-page elements that have an href and are not disabled.
Eligible(elems) ==
    {i \in Indices(elems) : elems[i].href # NoUrl /\ ~elems[i].disabled}

\* C19: findNextPage returns the href, made absolute against the current
\* URL, of the first next-page element (the first match of each selector, in
\* selector order) that has an href and is not disabled; when there is none
\* it returns the current URL with its page or its offset parameter advanced,
\* or null.
C19_ExplicitLinkBeforeSynthetic ==
    (call.fn = "findNextPage" /\ ret # Pending) =>
        IF Eligible(call.elems) # {}
        THEN ret = toAbs(call.elems[SetMin(Eligible(call.elems))].href, call.currentUrl)
        ELSE ret \in {NoUrl,
                      [call.currentUrl EXCEPT !.page = call.pageNo + 1],
                      [call.currentUrl EXCEPT !.offset = @ + OffsetStep]}

\* C19, witness: the first element is disabled, the second is a usable link
\* to another URL than the synthetic one, and that link is returned.
C19_Witness ==
    /\ call.fn = "findNextPage" /\ ret # Pending
    /\ Len(call.elems) = 2
    /\ Eligible(call.elems) = {2}
    /\ call.elems[1].disabled
    /\ ret = toAbs(call.elems[2].href, call.currentUrl)
    /\ ret # NoUrl
    /\ ret # [call.currentUrl EXCEPT !.page = call.pageNo + 1]

\* C20: saved never decreases and seenProducts never loses an element, so
\* the remaining budget MAX_PRODUCTS - saved never grows.
C20_BudgetMonotone ==
    [][/\ saved' >= saved
       /\ seenProducts \subseteq seenProducts'
       /\ cfg.MAX_PRODUCTS - saved' <= cfg.MAX_PRODUCTS - saved]_vars

\* C20, witness: two records were saved and two ids claimed, by handlers of
\* the HTML crawler.
C20_Witness ==
    /\ pc = "html"
    /\ saved >= 2
    /\ Cardinality(seenProducts) >= 2

DetailOnlyFields == {"description", "measurements", "type", "images", "features",
                     "scrapedAt"}
\* The records of the dataset that a detail merge produced.
DetailRecords == {i \in Indices(dataset) : Has(dataset[i], "scrapedAt")}

\* C21: with collectDetails = false no record of the dataset carries a
\* detail-only field, and a record is stamped with scrapedAt only by a DETAIL
\* handler, when it builds the record it is about to push.
C21_BasicRecordsHaveNoDetailFields ==
    /\ ~cfg.collectDetails =>
          \A i \in Indices(dataset) : DOMAIN dataset[i] \cap DetailOnlyFields = {}
    /\ \A h \in handlers : Has(h.final, "scrapedAt") => h.req.label = "DETAIL"
    /\ DetailRecords # {} => cfg.collectDetails

\* C21, witness: a run in basic mode stored a record from the SIK API and a
\* LIST handler stored another.
C21_Witness ==
    /\ ~cfg.collectDetails
    /\ Len(dataset) >= 2
    /\ \E h \in ListHandlers : h.at = "pushed" /\ h.final = dataset[Len(dataset)]

OptionalDetailFields == {"name", "description", "measurements", "type", "currency",
                         "images", "features"}

\* C22: the records stored by the detail path have one set of keys, which
\* holds every optional field: a field that was not extracted is a key with
\* value null.
C22_DetailRecordsSameShape ==
    /\ \A i, j \in DetailRecords : DOMAIN dataset[i] = DOMAIN dataset[j]
    /\ \A i \in DetailRecords : OptionalDetailFields \subseteq DOMAIN dataset[i]

\* C26: every record of the dataset has a non-null availability.
C26_AvailabilityNeverNull ==
    \A i \in Indices(dataset) :
        Has(dataset[i], "availability") /\ dataset[i].availability # Null

\* C26, witness: a detail page that states no availability was merged and
\* stored with the sentinel.
C26_Witness ==
    \E i \in DetailRecords :
        /\ dataset[i].availability = "Check availability"
        /\ Get(dataset[i], "images") = Null
        /\ Has(dataset[i], "images")

ListRequestsPending ==
    {r \in Requests(queue) : r.label = "LIST"} \cup {h.req : h \in ListHandlers}

\* No LIST request has a pageNo above MAX_PAGES, and a LIST request beyond
\* page 1 was enqueued with the pageNo of its predecessor plus one.
PageNoWithinCeiling ==
    \A r \in ListRequestsPending :
        /\ r.pageNo <= cfg.MAX_PAGES
        /\ r.pageNo > 1 =>
              \E e \in nextLog : e.enqueued /\ e.to = r.url /\ e.pageNo + 1 = r.pageNo

\* C29: the chain of listing pages of a start URL is finite and the HTML
\* crawl terminates: every successor carries pageNo + 1, no LIST request has
\* a pageNo above MAX_PAGES, and crawler.run resolves.
C29_ChainEndsAndCrawlTerminates == []PageNoWithinCeiling /\ <>(pc = "done")

\* C29, witness: the crawl is over and its chain went up to page MAX_PAGES
\* through a URL the synthetic fallback computed.
C29_Witness ==
    /\ pc = "done"
    /\ cfg.MAX_PAGES >= 2
    /\ \E e \in nextLog :
          /\ e.enqueued /\ e.pageNo + 1 = cfg.MAX_PAGES
          /\ e.to = [e.from EXCEPT !.page = e.pageNo + 1]

\* The records a step appends to the dataset.
Stored == SubSeq(dataset', Len(dataset) + 1, Len(dataset'))

\* C30: while fetchViaSik runs no handler runs and no detail record is
\* stored, and with collectDetails a product with a url is queued in
\* detailRequests, not stored; the detail crawler starts only after
\* fetchViaSik has returned, with collectDetails, a non-empty detailRequests
\* and saved < MAX_PRODUCTS, and its queue is detailRequests.
C30_DetailIsSecondStage ==
    [][/\ pc = "sik" =>
            /\ handlers = {} /\ queue = <<>>
            /\ \A i \in Indices(Stored) :
                  /\ ~Has(Stored[i], "scrapedAt")
                  /\ cfg.collectDetails => Stored[i].url = NoUrl
       /\ (pc # "detail" /\ pc' = "detail") =>
            /\ pc = "sik" /\ ~SikLoopCond
            /\ cfg.collectDetails
            /\ Len(detailRequests) > 0
            /\ saved < cfg.MAX_PRODUCTS
            /\ Requests(queue') = {DetailOf(detailRequests[i]) : i \in Indices(detailRequests)}]_vars

\* C30, witness: the detail crawler runs on two queued products and nothing
\* of the detail path is stored yet.
C30_Witness ==
    /\ pc = "detail"
    /\ Len(detailRequests) >= 2
    /\ Len(queue) >= 1
    /\ DetailRecords = {}

NoDuplicates(sq) == \A i, j \in 1..Len(sq) : sq[i] = sq[j] => i = j

\* C23: the features extractProductDetails returns hold no entry twice and
\* at most 5 entries, and the images it returns hold no entry twice, for
\* every order and multiplicity of the elements of the page.
C23_FeaturesAndImagesDeduplicated ==
    /\ (call.fn = "features" /\ ret # Pending) =>
          NoDuplicates(ret.features) /\ Len(ret.features) <= 5
    /\ (call.fn = "images" /\ ret # Pending) => NoDuplicates(ret.images)

\* C23, witness: a page that repeats a text and holds six different texts
\* fit to be features gave five features; or a selector that matched the
\* same product image twice gave one image.
C23_Witness ==
    \/ /\ call.fn = "features" /\ ret # Pending
       /\ \E i, j \in 1..Len(call.texts) :
             i # j /\ call.texts[i] = call.texts[j] /\ NotCta(call.texts[i])
       /\ Cardinality({call.texts[i] : i \in {k \in 1..Len(call.texts) :
                                                NotCta(call.texts[k])}}) >= 6
       /\ Len(ret.features) = 5
    \/ /\ call.fn = "images" /\ ret # Pending
       /\ \E sel \in 1..Len(call.matches) :
             /\ Len(call.matches[sel]) = 2
             /\ call.matches[sel][1] = call.matches[sel][2]
             /\ ret.images = <<call.matches[sel][1]>>

RetriableStatuses == {"429", "502", "504", "590"}
Failed(outcome) == outcome # "ok"

\* C24: fetchWithRetry makes at most `attempts` attempts, makes no attempt
\* after a successful one and returns then, and makes another attempt only
\* after a failure whose status is 429, 502, 504 or 590.
C24_BoundedRetriesOnRetriableStatus ==
    (call.fn = "fetchWithRetry" /\ ret # Pending) =>
        /\ Len(ret.log) <= call.attempts
        /\ \A k \in 1..(Len(ret.log) - 1) : ret.log[k] \in RetriableStatuses
        /\ ret.state = "returned" <=> ret.log[Len(ret.log)] = "ok"

\* C24, witness: with three attempts allowed, two retriable failures were
\* followed by a success, which was returned.
C24_Witness ==
    /\ call.fn = "fetchWithRetry" /\ ret # Pending
    /\ call.attempts = 3
    /\ ret.log = <<"429", "502", "ok">>
    /\ ret.state = "returned"

Canonical(r) ==
    [name |-> r.name, price |-> r.price, currency |-> r.currency,
     rating |-> r.rating, reviewCount |-> r.reviewCount,
     availability |-> r.availability]

\* C25: one product carried in the SIK, the JSON-LD and the DOM shape gives
\* records with the same name, price, currency, rating, reviewCount and
\* availability.
C25_ShapesNormalizeAlike ==
    (call.fn = "normalize" /\ ret # Pending) =>
        /\ Canonical(ret.sik) = Canonical(ret.jsonld)
        /\ Canonical(ret.sik) = Canonical(ret.dom)

UsableBlocks(blocks) ==
    {i \in 1..Len(blocks) : blocks[i] \in {"ItemList", "ItemListEmpty", "Product"}}

\* C27: tryEmbeddedJson never throws; a block that fails to parse is skipped
\* and the blocks after it are examined, so the products are those of the
\* first ItemList or Product block; after a fetch error, or when no block
\* has products, it returns products = null and the LIST handler goes on to
\* the DOM strategy.
C27_EmbeddedJsonFailureIsLocal ==
    (call.fn = "tryEmbeddedJson" /\ ret # Pending) =>
        /\ ~ret.threw
        /\ (call.fetchOk /\ UsableBlocks(call.blocks) # {}) =>
              /\ ~ret.isNull
              /\ ret.from = SetMin(UsableBlocks(call.blocks))
              /\ ret.products = BlockProducts(call.blocks[ret.from])
        /\ (~call.fetchOk \/ UsableBlocks(call.blocks) = {}) =>
              /\ ret.isNull
              /\ DomNeeded(<<>>)

\* C27, witness: the first block did not parse and the products came from
\* the ItemList block after it; or the fetch failed and null was returned.
C27_Witness ==
    /\ call.fn = "tryEmbeddedJson" /\ ret # Pending
    /\ \/ /\ call.fetchOk
          /\ call.blocks = <<"malformed", "ItemList">>
          /\ ret.from = 2 /\ ~ret.isNull
       \/ /\ ~call.fetchOk
          /\ call.blocks = <<"ItemList">>
          /\ ret.isNull /\ ~ret.threw

\* C28: when every attempt failed or a failure is not retriable,
\* fetchWithRetry throws the error of the last attempt made and returns no
\* response; a failure that is not retriable on the first attempt ends the
\* call after exactly one attempt.
C28_LastErrorThrown ==
    (call.fn = "fetchWithRetry" /\ ret # Pending) =>
        LET n == Len(ret.log)
            last == ret.log[n]
        IN /\ (\/ n = call.attempts /\ \A k \in 1..n : Failed(ret.log[k])
               \/ Failed(last) /\ last \notin RetriableStatuses) =>
                 /\ ret.state = "thrown"
                 /\ ret.thrown = last
           /\ ret.state = "thrown" => Failed(last)
           /\ (Failed(ret.log[1]) /\ ret.log[1] \notin RetriableStatuses) => n = 1

\* C28, witness: with three attempts allowed, a retriable failure was
\* followed by one that is not, and the second error was thrown; or all three
\* attempts failed with retriable statuses and the third error was thrown.
C28_Witness ==
    /\ call.fn = "fetchWithRetry" /\ ret # Pending
    /\ call.attempts = 3
    /\ ret.state = "thrown"
    /\ \/ ret.log = <<"429", "none">> /\ ret.thrown = "none"
       \/ ret.log = <<"429", "502", "504">> /\ ret.thrown = "504"

Increasing(f) == \A a, b \in DOMAIN f : a < b => f[a] < f[b]

\* C31: every record extractProductsFromHtml returns is the record of a card
\* that has a link to a product page ('/p/'), whose URL gives a numeric id,
\* and that has a name and a price other than 0; the records are in the
\* order of their cards.
C31_OnlyCompleteCardsInOrder ==
    (call.fn = "extractProductsFromHtml" /\ ret # Pending) =>
        \E f \in [1..Len(ret.found) -> 1..Len(call.cards)] :
            /\ Increasing(f)
            /\ \A k \in 1..Len(ret.found) :
                  LET card == call.cards[f[k]]
                      rec == ret.found[k]
                  IN /\ rec = DomProduct(card)
                     /\ \E i \in 1..Len(card.links) : card.links[i].kind = "p"
                     /\ rec.url.kind = "p"
                     /\ rec.productId \in Digits
                     /\ card.name \notin {Null, ""} \/ card.ariaLabel \notin {Null, ""}
                     /\ card.firstNumber \notin {Null, "0"}

\* C31, witness: of three cards the one in the middle has no name, or no
\* price but 0, or no id, and the two others were returned in their order.
C31_Witness ==
    /\ call.fn = "extractProductsFromHtml" /\ ret # Pending
    /\ Len(call.cards) = 3
    /\ call.cards[2] \in {CardFree, CardNoId, CardNoLink}
    /\ ret.found = <<DomProduct(call.cards[1]), DomProduct(call.cards[3])>>

\* C33: extractProductsFromHtml adds to seenProducts the ids of the cards it
\* returns and no other, so that a card with a name and a price whose id was
\* carried before it only by rejected cards is returned.
C33_RejectedCardKeepsIdFree ==
    (call.fn = "extractProductsFromHtml" /\ ret # Pending) =>
        /\ ret.seen \ call.seen =
              {ret.found[k].productId : k \in 1..Len(ret.found)}
        /\ \A i \in 1..Len(call.cards) :
              LET product == DomProduct(call.cards[i])
              IN (/\ product.url # NoUrl /\ product.productId # Null
                  /\ product.productId \notin call.seen
                  /\ product.name # Null /\ product.price \notin {Null, "0"}) =>
                    \E k \in 1..Len(ret.found) :
                        ret.found[k].productId = product.productId

\* The ids of the candidates of a page: of its JSON-LD items and its cards.
CandidateIds(json, cards) ==
    {JsonLdId(json[i]) : i \in 1..Len(json)}
      \cup {DomProduct(cards[i]).productId : i \in 1..Len(cards)}

\* C34: when the handler of a LIST request threw at the await of one of its
\* products and the crawler runs it again, the failed run and the retry
\* together store or enqueue what a run without failure stores or enqueues,
\* and no product twice.
C34_RetryCompletesThePage ==
    (call.fn = "listPage" /\ ret # Pending /\ ret.first.threw) =>
        LET whole == ListPage(call.c, call.saved, call.seen, call.json, call.cards,
                              call.pageNo, 0).handled
            both == ret.first.handled \o ret.retry.handled
        IN /\ \A i, k \in 1..Len(both) :
                 both[i].productId = both[k].productId => i = k
           /\ {both[i].productId : i \in 1..Len(both)} =
                 {whole[i].productId : i \in 1..Len(whole)}

\* C38: a LIST page all of whose candidates have ids that are already in
\* seenProducts stores nothing, enqueues nothing for detail and enqueues no
\* next page.
C38_SeenPageYieldsNothing ==
    (/\ call.fn = "listPage" /\ ret # Pending
     /\ CandidateIds(call.json, call.cards) \subseteq call.seen) =>
        /\ ret.first.handled = <<>>
        /\ ret.first.saved = call.saved
        /\ ~ret.first.paginates

\* C38, witness: a first page, with budget left and pages left, carries a
\* JSON-LD item and two cards whose ids are all in seenProducts, and the
\* handler stored and enqueued nothing and did not paginate.
C38_Witness ==
    /\ call.fn = "listPage" /\ ret # Pending
    /\ call.json = <<JsonA>> /\ call.cards = <<CardBilly, CardMalm>>
    /\ call.seen = {"1", "2"}
    /\ call.saved < call.c.MAX_PRODUCTS /\ call.pageNo < call.c.MAX_PAGES
    /\ call.failAt = 0
    /\ ret.first.handled = <<>> /\ ~ret.first.paginates

\* C35: the productId of every stored record is in seenProducts, and the
\* record a DETAIL handler stores carries the id its listing record was
\* claimed with.
C35_StoredIdIsClaimedId ==
    /\ \A i \in 1..Len(dataset) : dataset[i].productId \in seenProducts
    /\ \A h \in handlers :
          (h.req.label = "DETAIL" /\ h.at \in {"push", "pushed"}) =>
              h.final.productId = h.req.baseData.productId

\* C36 as stated: with collectDetails every stored record has scrapedAt.
C36_AllRecordsDetailed ==
    cfg.collectDetails =>
        \A i \in 1..Len(dataset) : Has(dataset[i], "scrapedAt")

\* C36, amended: with collectDetails every stored record has scrapedAt or
\* has no url: a listing record is stored directly only when the product has
\* no url to fetch its detail page from.
C36_DetailedUnlessNoUrl ==
    cfg.collectDetails =>
        \A i \in 1..Len(dataset) :
            Has(dataset[i], "scrapedAt") \/ dataset[i].url = NoUrl

\* C36, witness: with collectDetails the dataset holds a record of the
\* detail merge and a listing record without url.
C36_Witness ==
    /\ cfg.collectDetails
    /\ \E i, k \in 1..Len(dataset) :
          /\ Has(dataset[i], "scrapedAt")
          /\ ~Has(dataset[k], "scrapedAt") /\ dataset[k].url = NoUrl

\* A step of fetchViaSik that sent a batch request.
SikRequested == pc = "sik" /\ (sik' # sik \/ pc' = "failed")
\* The batch requests fetchViaSik has sent.
SikRequests == listPages + (IF sik.done \/ pc = "failed" THEN 1 ELSE 0)

\* C32: fetchViaSik sends at most MAX_PAGES batch requests and ends; a
\* request is sent only while saved < MAX_PRODUCTS, offset < total and
\* page <= MAX_PAGES and the loop was not left; after it the loop is left
\* (no PRIMARY_AREA, no product, or the request failed) or page grew by one
\* and offset by a window of 1 to 48; without collectDetails at most
\* MAX_PRODUCTS records are stored.
C32_SikLoopBoundedAndEnds ==
    /\ [][SikRequested =>
            /\ saved < cfg.MAX_PRODUCTS /\ sik.offset < sik.total
            /\ sik.page <= cfg.MAX_PAGES /\ ~sik.done
            /\ \/ sik'.done
               \/ pc' = "failed"
               \/ /\ sik'.page = sik.page + 1
                  /\ sik'.offset - sik.offset \in 1..48]_vars
    /\ [](SikRequests <= cfg.MAX_PAGES)
    /\ [](~cfg.collectDetails => Len(dataset) <= cfg.MAX_PRODUCTS)
    /\ <>(pc # "sik")

\* C32, witness: with the default maxProducts every request of the run
\* carried products and a window of 48, and fetchViaSik returned because
\* page went past MAX_PAGES.
C32_Witness ==
    /\ pc \notin {"sik", "failed"}
    /\ cfg.MAX_PRODUCTS = DefaultMaxProducts
    /\ sik.page = cfg.MAX_PAGES + 1
    /\ sik.offset = cfg.MAX_PAGES * DEFAULT_PAGE_SIZE
    /\ sik.offset < sik.total /\ ~sik.done

\* C37: saved counts the records stored: it grows by one after each stored
\* record, once the await of its pushData has returned, and does not grow
\* when pushData rejects or a handler returns early; when the run completes
\* saved is the number of records in the dataset.
C37_SavedCountsStoredRecords ==
    /\ Len(dataset) = saved + Cardinality({h \in handlers : h.at = "pushed"})
    /\ pc = "done" => saved = Len(dataset)

\* C37, witness: the run completed after a pushData rejected: a product that
\* was claimed is not in the dataset, and saved counts the record that is.
C37_Witness ==
    /\ pc = "done"
    /\ ~cfg.collectDetails
    /\ saved = 1 /\ Len(dataset) = 1
    /\ \E id \in seenProducts : \A i \in 1..Len(dataset) : dataset[i].productId # id
    /\ cfg.MAX_PRODUCTS > 1
====
